---- MODULE Spec2Model ----
(***************************************************************************)
(* A model of malg::Matrix2D<T> (include/matrix2d.hpp): the heap blocks a  *)
(* matrix owns (the array of row pointers and the value pool), its         *)
(* constructors, assignments, destructor, transpose and arithmetic.        *)
(* T is modelled by the integers.                                          *)
(***************************************************************************)
EXTENDS Integers, Sequences, FiniteSets, TLC

\* exploration bounds
MaxDim == 2       \* largest row / column count handed to a constructor by the drivers
MaxT == 4         \* largest row / column count of the matrices the transpose driver starts from
MaxA == 3         \* largest row / column count of the operands the arithmetic driver starts from
MaxVal == 1       \* largest fill value / scalar handed to an operation
MaxFaults == 1    \* how many allocations the environment lets fail in one run
HeapSize == 6     \* number of blocks the free store can hold at once

VARIABLES
  m,      \* the driver's matrix variables: None (no object) or [ptr, nrows, ncols]
  heap,   \* the free store: address -> block
  last,   \* the operation that produced this state and how it ended
  budget  \* how many more allocations the environment may let fail

vars == <<m, heap, last, budget>>

Slots == {"mA", "mB", "mC"}     \* the variables of a driver (test.cpp uses mA..mD)
Vars2 == {"mA", "mB"}           \* the variables the lifecycle driver works on
Dims  == 0..MaxDim
Vals  == 0..MaxVal
Addr  == 1..HeapSize

Null   == 0                     \* nullptr
Undef  == 0 - 1                 \* an element of new T[n] that was never written
Indet  == <<0 - 1, 0>>          \* an entry of new T*[n] that was never written
\* a variable that holds no object (before construction, after destruction)
None   == [ptr |-> Null, nrows |-> 0 - 1, ncols |-> 0 - 1]
Empty  == [ptr |-> Null, nrows |-> 0, ncols |-> 0]

FreeBlock == [kind |-> "free", data |-> <<>>]
FreeAddrs(hp) == {a \in Addr : hp[a].kind = "free"}
LiveAddrs(hp) == Addr \ FreeAddrs(hp)
\* operator new[]: the address of the block it hands out
NewAddr(hp) == CHOOSE a \in FreeAddrs(hp) : \A b \in FreeAddrs(hp) : a <= b
\* operator delete[] / delete on the head of a live block
Release(hp, a) == [hp EXCEPT ![a] = FreeBlock]

\* outcomes after which the process does not go on (a fault or heap corruption)
Fatal == {"segv", "ub"}

-----------------------------------------------------------------------------
\* element access through the array of row pointers

\* ptr_[i] : the i-th row pointer of the row array at p (0-indexed)
RowPtr(hp, p, i) == hp[p].data[i + 1]
\* whether ptr_[i][j] addresses an element of a live pool
InPool(hp, p, i, j) ==
  /\ p \in Addr /\ hp[p].kind = "rows" /\ i + 1 \in DOMAIN hp[p].data
  /\ LET rp == RowPtr(hp, p, i)
     IN /\ rp[1] \in Addr /\ hp[rp[1]].kind = "pool"
        /\ rp[2] + j + 1 \in DOMAIN hp[rp[1]].data
\* ptr_[i][j]
Elem(hp, p, i, j) ==
  LET rp == RowPtr(hp, p, i) IN hp[rp[1]].data[rp[2] + j + 1]
\* ptr_[i][j] = v
SetElem(hp, p, i, j, v) ==
  LET rp == RowPtr(hp, p, i) IN [hp EXCEPT ![rp[1]].data[rp[2] + j + 1] = v]

\* operator[](row): the row handle, or range_error
index(hp, obj, row) ==
  IF row >= obj.nrows THEN [out |-> "range_error", row |-> Indet]
  ELSE IF obj.ptr = Null THEN [out |-> "segv", row |-> Indet]
  ELSE [out |-> "ok", row |-> RowPtr(hp, obj.ptr, row)]

-----------------------------------------------------------------------------
\* constructArray(nrows, ncols).  fail: 0 = both allocations succeed, 1 = the
\* row array's allocation throws, 2 = the pool's allocation throws.  g is the
\* indeterminate value the handler reads from ptr[0] when the pool's
\* allocation threw (ptr[0] was never written).
constructArray(hp, nrows, ncols, fail, g) ==
  IF fail = 1 \/ FreeAddrs(hp) = {}
  THEN [ptr |-> Null, heap |-> hp, out |-> "bad_alloc", allocs |-> 1, freed |-> <<>>]
  ELSE
    LET p  == NewAddr(hp)
        h1 == [hp EXCEPT ![p] = [kind |-> "rows", data |-> [i \in 1..nrows |-> Indet]]]
    IN IF fail = 2 \/ FreeAddrs(h1) = {}
       THEN IF g = Null
            THEN [ptr |-> Null, heap |-> Release(h1, p), out |-> "bad_alloc",
                  allocs |-> 2, freed |-> <<p>>]
            ELSE [ptr |-> Null, heap |-> Release(Release(h1, g), p), out |-> "ub",
                  allocs |-> 2, freed |-> <<g, p>>]
       ELSE
         LET q  == NewAddr(h1)
             h2 == [h1 EXCEPT
                      ![q] = [kind |-> "pool", data |-> [k \in 1..(nrows * ncols) |-> Undef]],
                      ![p] = [kind |-> "rows",
                              data |-> [i \in 1..nrows |-> <<q, (i - 1) * ncols>>]]]
         IN [ptr |-> p, heap |-> h2, out |-> "ok", allocs |-> 2, freed |-> <<>>]

\* fill(val): ptr_[i][j] = val for every i < nrows_, j < ncols_
RECURSIVE fill(_, _, _, _, _, _)
fill(hp, p, nrows, ncols, k, val) ==
  IF k >= nrows * ncols THEN hp
  ELSE fill(SetElem(hp, p, k \div ncols, k % ncols, val), p, nrows, ncols, k + 1, val)

\* fill(listlist): ptr_[i][j] = listlist[i][j]
RECURSIVE fillList(_, _, _, _, _, _)
fillList(hp, p, nrows, ncols, k, ll) ==
  IF k >= nrows * ncols THEN hp
  ELSE fillList(SetElem(hp, p, k \div ncols, k % ncols, ll[(k \div ncols) + 1][(k % ncols) + 1]),
                p, nrows, ncols, k + 1, ll)

\* Matrix2D(nrows, ncols, val): the object built (None when it threw) and the heap
Matrix2D(hp, nrows, ncols, val, fail, g) ==
  IF nrows = 0 \/ ncols = 0
  THEN [obj |-> None, heap |-> hp, out |-> "invalid_argument", allocs |-> 0, freed |-> <<>>]
  ELSE
    LET c == constructArray(hp, nrows, ncols, fail, g)
    IN IF c.out # "ok"
       THEN [obj |-> None, heap |-> c.heap, out |-> c.out, allocs |-> c.allocs, freed |-> c.freed]
       ELSE [obj |-> [ptr |-> c.ptr, nrows |-> nrows, ncols |-> ncols],
             heap |-> fill(c.heap, c.ptr, nrows, ncols, 0, val),
             out |-> "ok", allocs |-> c.allocs, freed |-> <<>>]

\* Matrix2D(listlist): rows from the outer list, columns from its first inner
\* list.  For an empty outer list (listlist.begin())->size() reads an inner
\* list that does not exist: the read faults (trap) or yields some number,
\* after which the zero row count is rejected.
MatrixList(hp, ll, fail, g, trap) ==
  IF Len(ll) = 0
  THEN [obj |-> None, heap |-> hp, out |-> IF trap THEN "segv" ELSE "invalid_argument",
        allocs |-> 0, freed |-> <<>>]
  ELSE
    LET c == Matrix2D(hp, Len(ll), Len(ll[1]), 0, fail, g)
    IN IF c.out # "ok" THEN c
       ELSE [c EXCEPT !.heap = fillList(c.heap, c.obj.ptr, c.obj.nrows, c.obj.ncols, 0, ll)]

\* std::copy(first, first + n, d_first) between two pools
stdcopy(hp, from, n, to) ==
  [hp EXCEPT ![to[1]].data =
     [k \in DOMAIN hp[to[1]].data |->
        IF k - to[2] \in 1..n THEN hp[from[1]].data[from[2] + (k - to[2])]
        ELSE hp[to[1]].data[k]]]

\* a copy constructor that copies the pointer instead of the pool
MatrixCopyShallow(hp, src, fail, g) ==
  [obj |-> src, heap |-> hp, out |-> "ok", allocs |-> 0, freed |-> <<>>]

\* Matrix2D(const Matrix2D& src)
MatrixCopy(hp, src, fail, g) ==
  LET c == constructArray(hp, src.nrows, src.ncols, fail, g)
  IN IF c.out # "ok"
     THEN [obj |-> None, heap |-> c.heap, out |-> c.out, allocs |-> c.allocs, freed |-> c.freed]
     ELSE IF src.ptr = Null      \* m.ptr_[0] reads through a null pointer
     THEN [obj |-> None, heap |-> c.heap, out |-> "segv", allocs |-> c.allocs, freed |-> <<>>]
     ELSE [obj |-> [ptr |-> c.ptr, nrows |-> src.nrows, ncols |-> src.ncols],
           heap |-> stdcopy(c.heap, RowPtr(c.heap, src.ptr, 0), src.nrows * src.ncols,
                            RowPtr(c.heap, c.ptr, 0)),
           out |-> "ok", allocs |-> c.allocs, freed |-> <<>>]

\* a move constructor that forgets to reset its source
MatrixMoveKeep(src) == [obj |-> src, src |-> src]

\* Matrix2D(Matrix2D&& src): the new object and what is left in src
MatrixMove(src) == [obj |-> src, src |-> Empty]

\* a move assignment that resets its source instead of swapping
opMoveAssignReset(dst, src) == [dst |-> src, src |-> Empty]

\* operator=(Matrix2D&& src): the three std::swap calls
opMoveAssign(dst, src) == [dst |-> src, src |-> dst]

\* a copy assignment without the size check
opCopyAssignUnchecked(hp, dst, src) ==
  IF src.ptr = Null \/ dst.ptr = Null
  THEN [heap |-> hp, out |-> "segv"]
  ELSE [heap |-> stdcopy(hp, RowPtr(hp, src.ptr, 0), src.nrows * src.ncols,
                         RowPtr(hp, dst.ptr, 0)),
        out |-> "ok"]

\* operator=(const Matrix2D& src)
opCopyAssign(hp, dst, src) ==
  IF dst.nrows # src.nrows \/ dst.ncols # src.ncols
  THEN [heap |-> hp, out |-> "runtime_error"]
  ELSE IF src.ptr = Null \/ dst.ptr = Null      \* m.ptr_[0] or ptr_[0] through null
  THEN [heap |-> hp, out |-> "segv"]
  ELSE [heap |-> stdcopy(hp, RowPtr(hp, src.ptr, 0), src.nrows * src.ncols,
                         RowPtr(hp, dst.ptr, 0)),
        out |-> "ok"]

\* ~Matrix2D()
Destructor(hp, obj) ==
  IF obj.ptr = Null THEN [heap |-> hp, freed |-> <<>>]
  ELSE LET pool == RowPtr(hp, obj.ptr, 0)[1]
       IN IF pool # Null
          THEN [heap |-> Release(Release(hp, pool), obj.ptr), freed |-> <<pool, obj.ptr>>]
          ELSE [heap |-> Release(hp, obj.ptr), freed |-> <<obj.ptr>>]

-----------------------------------------------------------------------------
\* transpose()

\* an assignment *(first + a) = *cycle where the code swaps
SwapAtCopy(buf, x, y) == [buf EXCEPT ![x] = buf[y]]

\* std::swap(*(first + a), *cycle) on the pool (1-indexed positions)
SwapAt(buf, x, y) == [buf EXCEPT ![x] = buf[y], ![y] = buf[x]]

\* a square loop whose inner index starts at 0 instead of i + 1
RECURSIVE squareLoopFull(_, _, _, _, _)
squareLoopFull(hp, p, n, i, j) ==
  IF i >= n THEN hp
  ELSE IF j >= n THEN squareLoopFull(hp, p, n, i + 1, 0)
  ELSE LET x == Elem(hp, p, i, j)
           y == Elem(hp, p, j, i)
       IN squareLoopFull(SetElem(SetElem(hp, p, i, j, y), p, j, i, x), p, n, i, j + 1)

\* square case: std::swap(ptr_[i][j], ptr_[j][i]) for i < j < nrows_
RECURSIVE squareLoop(_, _, _, _, _)
squareLoop(hp, p, n, i, j) ==
  IF i >= n THEN hp
  ELSE IF j >= n THEN squareLoop(hp, p, n, i + 1, i + 2)
  ELSE LET x == Elem(hp, p, i, j)
           y == Elem(hp, p, j, i)
       IN squareLoop(SetElem(SetElem(hp, p, i, j, y), p, j, i, x), p, n, i, j + 1)

\* the do { } while of the non-square case, entered with a and cycle = c;
\* st = the pool, the visited bitmap and the destinations swapped so far
RECURSIVE followCycle(_, _, _, _, _)
followCycle(st, a, c, nrows, nm1) ==
  LET a2 == IF a = nm1 THEN nm1 ELSE (nrows * a) % nm1
      s2 == [buf     |-> SwapAt(st.buf, a2 + 1, c + 1),
             visited |-> [st.visited EXCEPT ![a2 + 1] = TRUE],
             log     |-> Append(st.log, a2)]
  IN IF a2 = c THEN s2 ELSE followCycle(s2, a2, c, nrows, nm1)

\* a loop that follows the cycle of every index, visited or not
RECURSIVE cycleLoopNoSkip(_, _, _, _)
cycleLoopNoSkip(st, c, nrows, nm1) ==
  IF c = nm1 THEN st
  ELSE cycleLoopNoSkip(followCycle(st, c, c, nrows, nm1), c + 1, nrows, nm1)

\* while(++cycle != last), entered with cycle - first = c
RECURSIVE cycleLoop(_, _, _, _)
cycleLoop(st, c, nrows, nm1) ==
  IF c = nm1 THEN st
  ELSE IF st.visited[c + 1] THEN cycleLoop(st, c + 1, nrows, nm1)
  ELSE cycleLoop(followCycle(st, c, c, nrows, nm1), c + 1, nrows, nm1)

\* the value pool after the permutation loop, with the bitmap and the swaps
permute(buf, nrows, ncols) ==
  LET nm1 == nrows * ncols - 1
  IN cycleLoop([buf |-> buf, visited |-> [k \in 1..nm1 |-> FALSE], log |-> <<>>],
               1, nrows, nm1)

\* row pointers that keep the stride of the rows before the transposition
rowPointersOldStride(pool, nrows, ncols) == [i \in 1..nrows |-> <<pool, (i - 1) * nrows>>]

\* the new array of row pointers over the transposed pool
rowPointers(pool, nrows, ncols) == [i \in 1..nrows |-> <<pool, (i - 1) * ncols>>]

\* transpose().  fail: 1 = the bitmap's allocation throws, 2 = new T*[nrows_]
\* throws.  trap: whether `delete ptr_` on a block from new[] is caught by
\* the allocator (it ends the run) or releases the block.
transpose(hp, obj, fail, trap) ==
  IF obj.nrows = obj.ncols
  THEN IF obj.ptr = Null /\ obj.nrows > 1
       THEN [obj |-> obj, heap |-> hp, out |-> "segv", allocs |-> 0, freed |-> <<>>]
       ELSE [obj |-> obj, heap |-> squareLoop(hp, obj.ptr, obj.nrows, 0, 1),
             out |-> "ok", allocs |-> 0, freed |-> <<>>]
  ELSE IF obj.ptr = Null       \* ptr_[0] through a null pointer
  THEN [obj |-> obj, heap |-> hp, out |-> "segv", allocs |-> 0, freed |-> <<>>]
  ELSE IF fail = 1 \/ FreeAddrs(hp) = {}
  THEN [obj |-> obj, heap |-> hp, out |-> "bad_alloc", allocs |-> 1, freed |-> <<>>]
  ELSE
    LET pool == RowPtr(hp, obj.ptr, 0)[1]
        st   == permute(hp[pool].data, obj.nrows, obj.ncols)
        v    == NewAddr(hp)
        h1   == [hp EXCEPT ![v] = [kind |-> "bits", data |-> st.visited],
                           ![pool].data = st.buf]
        sw   == [ptr |-> obj.ptr, nrows |-> obj.ncols, ncols |-> obj.nrows]
    IN IF trap
       THEN [obj |-> sw, heap |-> h1, out |-> "ub", allocs |-> 1, freed |-> <<>>]
       ELSE
         LET h2 == Release(h1, obj.ptr)
         IN IF fail = 2 \/ FreeAddrs(h2) = {}
            THEN [obj |-> [sw EXCEPT !.ptr = Null], heap |-> Release(h2, v),
                  out |-> "bad_alloc", allocs |-> 2, freed |-> <<obj.ptr, v>>]
            ELSE
              LET p  == NewAddr(h2)
                  h3 == [h2 EXCEPT ![p] = [kind |-> "rows",
                                           data |-> rowPointers(pool, sw.nrows, sw.ncols)]]
              IN [obj |-> [sw EXCEPT !.ptr = p], heap |-> Release(h3, v),
                  out |-> "ok", allocs |-> 2, freed |-> <<obj.ptr, v>>]

-----------------------------------------------------------------------------
\* arithmetic: each operator builds its result mC with Matrix2D(nrows, ncols)
\* and writes every element of it

\* operator+ : mC.ptr_[i][j] = this->ptr_[i][j] + right.ptr_[i][j], from the
\* k-th element on (k = i * ncols_ + j).  A read through a null ptr_ faults;
\* a read past the row array or past the pool of `right` is out of bounds.
RECURSIVE addLoop(_, _, _, _, _)
addLoop(hp, c, A, B, k) ==
  IF k >= A.nrows * A.ncols THEN [heap |-> hp, out |-> "ok"]
  ELSE LET i == k \div A.ncols
           j == k % A.ncols
       IN IF A.ptr = Null \/ B.ptr = Null THEN [heap |-> hp, out |-> "segv"]
          ELSE IF ~InPool(hp, B.ptr, i, j) THEN [heap |-> hp, out |-> "ub"]
          ELSE addLoop(SetElem(hp, c, i, j, Elem(hp, A.ptr, i, j) + Elem(hp, B.ptr, i, j)),
                       c, A, B, k + 1)

opAdd(hp, A, B, fail, g) ==
  LET c == Matrix2D(hp, A.nrows, A.ncols, 0, fail, g)
  IN IF c.out # "ok" THEN c
     ELSE LET r == addLoop(c.heap, c.obj.ptr, A, B, 0)
          IN [c EXCEPT !.heap = r.heap, !.out = r.out]

\* an inner loop that assigns the product instead of adding it
RECURSIVE dotAssign(_, _, _, _, _, _, _)
dotAssign(hp, A, B, i, j, k, acc) ==
  IF k >= A.ncols THEN acc
  ELSE dotAssign(hp, A, B, i, j, k + 1, Elem(hp, A.ptr, i, k) * Elem(hp, B.ptr, k, j))

\* the innermost loop of operator* : acc + sum of A[i][k] * B[k][j] for k, k+1, ..
RECURSIVE dot(_, _, _, _, _, _, _)
dot(hp, A, B, i, j, k, acc) ==
  IF k >= A.ncols THEN acc
  ELSE dot(hp, A, B, i, j, k + 1, acc + Elem(hp, A.ptr, i, k) * Elem(hp, B.ptr, k, j))

\* the two outer loops of operator*, from the e-th element of mC on
RECURSIVE mulLoop(_, _, _, _, _)
mulLoop(hp, c, A, B, e) ==
  IF e >= A.nrows * B.ncols THEN [heap |-> hp, out |-> "ok"]
  ELSE LET i == e \div B.ncols
           j == e % B.ncols
       IN IF A.ncols > 0 /\ (A.ptr = Null \/ B.ptr = Null) THEN [heap |-> hp, out |-> "segv"]
          ELSE mulLoop(SetElem(hp, c, i, j, dot(hp, A, B, i, j, 0, 0)), c, A, B, e + 1)

\* a product that builds its result without comparing the dimensions
opMulUnchecked(hp, A, B, fail, g) == Matrix2D(hp, A.nrows, B.ncols, 0, fail, g)

\* operator*(right): the dimension check, then the result and the loops
opMul(hp, A, B, fail, g) ==
  IF A.ncols # B.nrows
  THEN [obj |-> None, heap |-> hp, out |-> "range_error", allocs |-> 0, freed |-> <<>>]
  ELSE LET c == Matrix2D(hp, A.nrows, B.ncols, 0, fail, g)
       IN IF c.out # "ok" THEN c
          ELSE LET r == mulLoop(c.heap, c.obj.ptr, A, B, 0)
               IN [c EXCEPT !.heap = r.heap, !.out = r.out]

\* friend operator*(left, right) : mC.ptr_[i][j] = left * right.ptr_[i][j]
RECURSIVE scalarLoop(_, _, _, _, _)
scalarLoop(hp, c, left, B, k) ==
  IF k >= B.nrows * B.ncols THEN [heap |-> hp, out |-> "ok"]
  ELSE IF B.ptr = Null THEN [heap |-> hp, out |-> "segv"]
  ELSE scalarLoop(SetElem(hp, c, k \div B.ncols, k % B.ncols,
                          left * Elem(hp, B.ptr, k \div B.ncols, k % B.ncols)),
                  c, left, B, k + 1)

opScalarMul(hp, left, B, fail, g) ==
  LET c == Matrix2D(hp, B.nrows, B.ncols, 0, fail, g)
  IN IF c.out # "ok" THEN c
     ELSE LET r == scalarLoop(c.heap, c.obj.ptr, left, B, 0)
          IN [c EXCEPT !.heap = r.heap, !.out = r.out]

-----------------------------------------------------------------------------
\* the drivers: one action per operation of the class

\* the literal {{11,12,..},{21,22,..},..} with r rows and c columns
Lit(r, c) == [i \in 1..r |-> [j \in 1..c |-> 10 * i + j]]
\* listlist.size() and the size of its first inner list (0 when it has none)
Shape(ll) == <<Len(ll), IF Len(ll) = 0 THEN 0 ELSE Len(ll[1])>>
\* the nested lists handed to Matrix2D(listlist): rectangular ones, {} and {{}}
Lits == {Lit(r, c) : r \in 1..MaxDim, c \in 1..MaxDim} \cup {<<>>, << <<>> >>}

Garbage == {Null} \cup Addr
\* how the allocations of one operation go: <<fail, g>> as constructArray takes them
Modes == {<<0, Null>>} \cup
         (IF budget > 0 THEN {<<1, Null>>} \cup {<<2, g>> : g \in Garbage} ELSE {})

Running == last.out \notin Fatal

Record(op, a, b, arg, r) ==
  /\ last' = [op |-> op, a |-> a, b |-> b, arg |-> arg, out |-> r.out,
              allocs |-> r.allocs]
  /\ budget' = IF r.out = "bad_alloc" THEN budget - 1 ELSE budget

NoAlloc(out) == [out |-> out, allocs |-> 0, freed |-> <<>>]

\* the variable s receives the object a constructor built, if it built one
Built(s, r) ==
  /\ m' = IF r.out = "ok" THEN [m EXCEPT ![s] = r.obj] ELSE m
  /\ heap' = r.heap

DefaultConstruct(s) ==
  /\ Running /\ m[s] = None
  /\ m' = [m EXCEPT ![s] = Empty]
  /\ UNCHANGED heap
  /\ Record("default", s, "-", 0, NoAlloc("ok"))

\* a failed allocation ends the same way whatever the sizes and the value are
FillConstruct(s) ==
  /\ Running /\ m[s] = None
  /\ \E fm \in Modes, nrows \in Dims, ncols \in Dims, val \in Vals :
       /\ fm[1] # 0 => (nrows = 1 /\ ncols = 1 /\ val = 0)
       /\ LET r == Matrix2D(heap, nrows, ncols, val, fm[1], fm[2])
          IN Built(s, r) /\ Record("fill", s, "-", <<nrows, ncols>>, r)

ListConstruct(s) ==
  /\ Running /\ m[s] = None
  /\ \E fm \in Modes, ll \in Lits, trap \in BOOLEAN :
       /\ fm[1] # 0 => ll = Lit(1, 1)
       /\ trap => ll = <<>>
       /\ LET r == MatrixList(heap, ll, fm[1], fm[2], trap)
          IN Built(s, r) /\ Record("list", s, "-", Shape(ll), r)

CopyConstruct(s, t) ==
  /\ Running /\ m[s] = None /\ m[t] # None
  /\ \E fm \in Modes :
       LET r == MatrixCopy(heap, m[t], fm[1], fm[2])
       IN Built(s, r) /\ Record("copy", s, t, 0, r)

MoveConstruct(s, t) ==
  /\ Running /\ m[s] = None /\ m[t] # None
  /\ LET r == MatrixMove(m[t])
     IN m' = [m EXCEPT ![s] = r.obj, ![t] = r.src]
  /\ UNCHANGED heap
  /\ Record("move", s, t, 0, NoAlloc("ok"))

MoveAssign(s, t) ==
  /\ Running /\ m[s] # None /\ m[t] # None
  /\ LET r == opMoveAssign(m[s], m[t])
     IN m' = IF s = t THEN m ELSE [m EXCEPT ![s] = r.dst, ![t] = r.src]
  /\ UNCHANGED heap
  /\ Record("move_assign", s, t, 0, NoAlloc("ok"))

CopyAssign(s, t) ==
  /\ Running /\ m[s] # None /\ m[t] # None /\ s # t
  /\ LET r == opCopyAssign(heap, m[s], m[t])
     IN /\ heap' = r.heap
        /\ Record("copy_assign", s, t, 0, NoAlloc(r.out))
  /\ UNCHANGED m

Destroy(s) ==
  /\ Running /\ m[s] # None
  /\ LET r == Destructor(heap, m[s])
     IN /\ heap' = r.heap
        /\ Record("destroy", s, "-", 0, [out |-> "ok", allocs |-> 0, freed |-> r.freed])
  /\ m' = [m EXCEPT ![s] = None]

Transpose(s) ==
  /\ Running /\ m[s] # None
  /\ \E fail \in {fm[1] : fm \in Modes}, trap \in BOOLEAN :
       LET r == transpose(heap, m[s], fail, trap)
       IN /\ m' = [m EXCEPT ![s] = r.obj]
          /\ heap' = r.heap
          /\ Record("transpose", s, "-", 0, r)

NoOp == [op |-> "init", a |-> "-", b |-> "-", arg |-> 0, out |-> "ok", allocs |-> 0]

Init ==
  /\ m = [s \in Slots |-> None]
  /\ heap = [a \in Addr |-> FreeBlock]
  /\ last = NoOp
  /\ budget = 0

Next ==
  \/ \E s \in Vars2 : DefaultConstruct(s)
  \/ \E s \in Vars2 : FillConstruct(s)
  \/ \E s \in Vars2 : ListConstruct(s)
  \/ \E s \in Vars2, t \in Vars2 : CopyConstruct(s, t)
  \/ \E s \in Vars2, t \in Vars2 : MoveConstruct(s, t)
  \/ \E s \in Vars2, t \in Vars2 : MoveAssign(s, t)
  \/ \E s \in Vars2, t \in Vars2 : CopyAssign(s, t)
  \/ \E s \in Vars2 : Destroy(s)
  \/ \E s \in Vars2 : Transpose(s)

\* the lifecycle driver on a free store that never fails
Spec == Init /\ [][Next]_vars

-----------------------------------------------------------------------------
\* the objects a driver starts from: built by a constructor on an empty heap

EmptyHeap == [a \in Addr |-> FreeBlock]

\* <<"default">>, <<"fill", nrows, ncols, val>> or <<"list", nrows, ncols>>
Inputs(maxdim) ==
  {<<"default">>}
  \cup {<<"fill", r, c, v>> : r \in 1..maxdim, c \in 1..maxdim, v \in Vals}
  \cup {<<"list", r, c>> : r \in 1..maxdim, c \in 1..maxdim}

Build(hp, in) ==
  IF in[1] = "default" THEN [obj |-> Empty, heap |-> hp]
  ELSE IF in[1] = "fill" THEN Matrix2D(hp, in[2], in[3], in[4], 0, Null)
  ELSE MatrixList(hp, Lit(in[2], in[3]), 0, Null, FALSE)

\* the transpose driver: one matrix, transposed again and again, on a free
\* store that may fail
InitT ==
  \E in \in Inputs(MaxT) :
    LET x == Build(EmptyHeap, in)
    IN /\ m = [s \in Slots |-> IF s = "mA" THEN x.obj ELSE None]
       /\ heap = x.heap
       /\ last = NoOp
       /\ budget = MaxFaults

NextT == Transpose("mA")

SpecT == InitT /\ [][NextT]_vars

\* the failure driver: the operations of the lifecycle driver on a free
\* store that may fail
InitF ==
  /\ m = [s \in Slots |-> None]
  /\ heap = EmptyHeap
  /\ last = NoOp
  /\ budget = MaxFaults

SpecF == InitF /\ [][Next]_vars

\* the arithmetic driver: mC = mA + mB, mC = mA * mB, mC = s * mA, ...
InitArith ==
  \E ia \in Inputs(MaxA), ib \in Inputs(MaxA) :
    LET xa == Build(EmptyHeap, ia)
        xb == Build(xa.heap, ib)
    IN /\ m = [s \in Slots |-> IF s = "mA" THEN xa.obj ELSE IF s = "mB" THEN xb.obj ELSE None]
       /\ heap = xb.heap
       /\ last = NoOp
       /\ budget = 0

Add(s, a, b) ==
  /\ Running /\ m[s] = None /\ m[a] # None /\ m[b] # None
  /\ \E fm \in Modes :
       LET r == opAdd(heap, m[a], m[b], fm[1], fm[2])
       IN Built(s, r) /\ Record("add", a, b, 0, r)

Mul(s, a, b) ==
  /\ Running /\ m[s] = None /\ m[a] # None /\ m[b] # None
  /\ \E fm \in Modes :
       LET r == opMul(heap, m[a], m[b], fm[1], fm[2])
       IN Built(s, r) /\ Record("mul", a, b, 0, r)

ScalarMul(s, b) ==
  /\ Running /\ m[s] = None /\ m[b] # None
  /\ \E fm \in Modes, left \in Vals :
       LET r == opScalarMul(heap, left, m[b], fm[1], fm[2])
       IN Built(s, r) /\ Record("scalar_mul", "-", b, left, r)

NextArith ==
  \/ \E a \in Vars2, b \in Vars2 : Add("mC", a, b)
  \/ \E a \in Vars2, b \in Vars2 : Mul("mC", a, b)
  \/ \E b \in Vars2 : ScalarMul("mC", b)

SpecArith == InitArith /\ [][NextArith]_vars

-----------------------------------------------------------------------------
\* what a caller observes of a matrix

NonEmpty(obj) == obj # None /\ obj.ptr # Null
\* whether m[i][j] can be read: operator[] hands out a row and the row holds j
Readable(hp, obj, i, j) ==
  /\ obj # None /\ index(hp, obj, i).out = "ok" /\ InPool(hp, obj.ptr, i, j)
\* m[i][j], read through the row handle operator[] returns
At(hp, obj, i, j) ==
  LET h == index(hp, obj, i) IN hp[h.row[1]].data[h.row[2] + j + 1]
\* the elements of the object as a caller reads them, row by row
Values(hp, obj) ==
  [k \in 1..(obj.nrows * obj.ncols) |->
     IF Readable(hp, obj, (k - 1) \div obj.ncols, (k - 1) % obj.ncols)
     THEN At(hp, obj, (k - 1) \div obj.ncols, (k - 1) % obj.ncols) ELSE Undef]
\* the blocks an object owns: its row array and its pool
Owned(hp, obj) ==
  IF ~NonEmpty(obj) THEN {}
  ELSE {obj.ptr} \cup {RowPtr(hp, obj.ptr, 0)[1]}
\* the blocks that are live in hp
Live(hp) == LiveAddrs(hp)

-----------------------------------------------------------------------------
\* C1: transpose() of a matrix with rows # cols (1 x n and n x 1 included)
\* leaves a cols x rows matrix whose element [j][i], read through the row
\* handle, is the element that was at [i][j].
C1_NonSquareTranspose ==
  [][\A s \in Slots :
       (last'.op = "transpose" /\ last'.a = s /\ last'.out = "ok"
          /\ NonEmpty(m[s]) /\ m[s].nrows # m[s].ncols)
       => /\ m'[s].nrows = m[s].ncols
          /\ m'[s].ncols = m[s].nrows
          /\ \A i \in 0..(m[s].nrows - 1), j \in 0..(m[s].ncols - 1) :
               /\ Readable(heap', m'[s], j, i)
               /\ At(heap', m'[s], j, i) = At(heap, m[s], i, j)]_vars

\* the test's {{11,12,13,14},{21,22,23,24}} after transpose()
C1_Witness ==
  /\ last.op = "transpose" /\ last.out = "ok"
  /\ m["mA"].nrows = 4 /\ m["mA"].ncols = 2
  /\ Values(heap, m["mA"]) = <<11, 21, 12, 22, 13, 23, 14, 24>>

\* the sum of f[0] .. f[n-1]
RECURSIVE Sigma(_, _)
Sigma(f, n) == IF n = 0 THEN 0 ELSE Sigma(f, n - 1) + f[n - 1]

C3_AddShapeMismatch ==
  [][\A a \in Slots, b \in Slots :
       (last'.op = "add" /\ last'.a = a /\ last'.b = b
          /\ NonEmpty(m[a]) /\ NonEmpty(m[b])
          /\ (m[a].nrows # m[b].nrows \/ m[a].ncols # m[b].ncols))
       => /\ last'.out = "runtime_error"
          /\ m' = m /\ heap' = heap]_vars

C5_MoveConstruct ==
  [][/\ \A b \in Slots, a \in Slots :
          (last'.op = "move" /\ last'.a = b /\ last'.b = a)
          => /\ last'.out = "ok" /\ last'.allocs = 0
             /\ m'[b] = m[a]
             /\ m'[a] = Empty
             /\ heap' = heap
     /\ (last.op = "move" /\ last'.op = "destroy" /\ last'.a = last.b)
          => heap' = heap]_vars

\* B was move-constructed from a non-empty A: B owns two live blocks, A is empty
C5_Witness ==
  /\ last.op = "move"
  /\ m[last.b] = Empty
  /\ NonEmpty(m[last.a])
  /\ Cardinality(Owned(heap, m[last.a]) \cap Live(heap)) = 2

\* C6: no two live matrices own the same row array or the same pool, and
\* destroying or transposing one matrix leaves the shape and every value of
\* every other matrix as it was.
NoSharing ==
  \A s \in Slots, t \in Slots :
    (s # t /\ NonEmpty(m[s]) /\ NonEmpty(m[t]))
    => Owned(heap, m[s]) \cap Owned(heap, m[t]) = {}

C6_DeepCopyIsolation ==
  /\ [] NoSharing
  /\ [][\A s \in Slots, t \in Slots :
          (last'.op \in {"destroy", "transpose"} /\ last'.a = s /\ t # s /\ NonEmpty(m[t]))
          => /\ m'[t] = m[t]
             /\ Owned(heap', m'[t]) \subseteq Live(heap')
             /\ Values(heap', m'[t]) = Values(heap, m[t])]_vars

\* mA and mB held the same 2 x 2 literal; mA was transposed, mB still reads
\* 11 12 / 21 22 from blocks of its own
C6_Witness ==
  /\ last.op = "transpose" /\ last.a = "mA" /\ last.out = "ok"
  /\ NonEmpty(m["mA"]) /\ NonEmpty(m["mB"])
  /\ Values(heap, m["mA"]) = <<11, 21, 12, 22>>
  /\ Values(heap, m["mB"]) = <<11, 12, 21, 22>>

\* C7 as stated: copy construction from any instance, the empty state
\* included, completes with the source's shape and values in blocks of its own.
C7_CopyConstructAny ==
  [][\A s \in Slots, t \in Slots :
       (last'.op = "copy" /\ last'.a = s /\ last'.b = t)
       => /\ last'.out = "ok"
          /\ m'[s].nrows = m[t].nrows /\ m'[s].ncols = m[t].ncols
          /\ Values(heap', m'[s]) = Values(heap, m[t])
          /\ Owned(heap', m'[s]) \cap Owned(heap', m'[t]) = {}]_vars

\* C8: dst = src with different shapes ends with ShapeMismatch and leaves
\* the dimensions, the blocks and every element of dst (and the heap) unchanged.
C8_CopyAssignGuard ==
  [][\A s \in Slots, t \in Slots :
       (last'.op = "copy_assign" /\ last'.a = s /\ last'.b = t
          /\ (m[s].nrows # m[t].nrows \/ m[s].ncols # m[t].ncols))
       => /\ last'.out = "runtime_error"
          /\ m' = m
          /\ Values(heap', m'[s]) = Values(heap, m[s])
          /\ heap' = heap]_vars

\* a 2 x 2 destination kept its literal after a smaller source was refused
C8_Witness ==
  /\ last.op = "copy_assign" /\ last.out = "runtime_error"
  /\ NonEmpty(m[last.a]) /\ NonEmpty(m[last.b])
  /\ m[last.a].nrows = 2 /\ m[last.a].ncols = 2
  /\ Values(heap, m[last.a]) = <<11, 12, 21, 22>>

\* C9 as stated: s * A succeeds for every scalar and every matrix, the empty
\* state included, with a result of A's shape and C[i][j] = s * A[i][j].
C9_ScalarMulTotal ==
  [][\A b \in Slots :
       (last'.op = "scalar_mul" /\ last'.b = b)
       => /\ last'.out = "ok"
          /\ m'["mC"].nrows = m[b].nrows /\ m'["mC"].ncols = m[b].ncols
          /\ \A i \in 0..(m[b].nrows - 1), j \in 0..(m[b].ncols - 1) :
               /\ Readable(heap', m'["mC"], i, j)
               /\ At(heap', m'["mC"], i, j) = last'.arg * At(heap, m[b], i, j)]_vars

\* C10: transpose() of a square matrix (1 x 1 included) keeps the
\* dimensions, the row array and the pool where they are, allocates and
\* releases nothing, and leaves [i][j] equal to the old [j][i] for all i, j.
C10_SquareTranspose ==
  [][\A s \in Slots :
       (last'.op = "transpose" /\ last'.a = s /\ m[s] # None /\ m[s].nrows = m[s].ncols)
       => /\ last'.out = "ok" /\ last'.allocs = 0
          /\ m'[s] = m[s]
          /\ Live(heap') = Live(heap)
          /\ NonEmpty(m[s]) => heap'[m[s].ptr] = heap[m[s].ptr]
          /\ \A i \in 0..(m[s].nrows - 1), j \in 0..(m[s].ncols - 1) :
               /\ Readable(heap', m'[s], i, j)
               /\ At(heap', m'[s], i, j) = At(heap, m[s], j, i)]_vars

\* {{11,12,13},{21,22,23},{31,32,33}} after transpose()
C10_Witness ==
  /\ last.op = "transpose" /\ last.out = "ok"
  /\ m["mA"].nrows = 3 /\ m["mA"].ncols = 3
  /\ Values(heap, m["mA"]) = <<11, 21, 31, 12, 22, 32, 13, 23, 33>>

-----------------------------------------------------------------------------
\* C11: for a matrix with rows # cols, a transpose() that returned followed
\* at once by a second transpose() restores the original shape and, read
\* through the row handles, every original element at its original position.
C11_RoundTrip ==
  [][\A s \in Slots :
       (last'.op = "transpose" /\ last'.a = s /\ last'.out = "ok"
          /\ NonEmpty(m[s]) /\ m[s].nrows # m[s].ncols)
       => LET r == transpose(heap', m'[s], 0, FALSE)
          IN /\ r.out = "ok"
             /\ r.obj.nrows = m[s].nrows /\ r.obj.ncols = m[s].ncols
             /\ \A i \in 0..(m[s].nrows - 1), j \in 0..(m[s].ncols - 1) :
                  /\ Readable(r.heap, r.obj, i, j)
                  /\ At(r.heap, r.obj, i, j) = At(heap, m[s], i, j)]_vars

\* {{11,12,13,14},{21,22,23,24},{31,32,33,34}} after two transpose() calls
C11_Witness ==
  /\ last.op = "transpose" /\ last.out = "ok"
  /\ m["mA"].nrows = 3 /\ m["mA"].ncols = 4
  /\ Values(heap, m["mA"]) = <<11, 12, 13, 14, 21, 22, 23, 24, 31, 32, 33, 34>>

\* C12 as stated: once every instance has been destroyed, every block that
\* was allocated has been released (none is left), and a destructor releases
\* only blocks that are still live (none is released twice).
AllDestroyed == Running /\ last.op # "init" /\ \A s \in Slots : m[s] = None

C12_AllocReleasePaired ==
  /\ [](AllDestroyed => LiveAddrs(heap) = {})
  /\ [][\A s \in Slots :
          (last'.op = "destroy" /\ last'.a = s)
          => /\ Owned(heap, m[s]) \subseteq Live(heap)
             /\ Live(heap') = Live(heap) \ Owned(heap, m[s])]_vars

\* C13 as stated: when an allocation fails during transpose() of a matrix
\* with rows # cols, the dimensions, the row array, the pool and the order of
\* its elements are as before the call, and the heap holds the same blocks.
C13_TransposeFailureAtomic ==
  [][\A s \in Slots :
       (last'.op = "transpose" /\ last'.a = s /\ last'.out = "bad_alloc"
          /\ NonEmpty(m[s]) /\ m[s].nrows # m[s].ncols)
       => /\ m'[s] = m[s]
          /\ Values(heap', m[s]) = Values(heap, m[s])
          /\ heap' = heap]_vars

\* C14 as stated: when constructArray has allocated the row array and the
\* allocation of the pool fails, it releases that row array and no other
\* block: the heap holds exactly the blocks, with the contents, it held
\* before the call, and no object is built.
C14_PartialFailureRelease ==
  [][(last'.op \in {"fill", "list", "copy"} /\ last'.allocs = 2
        /\ last'.out \in {"bad_alloc", "ub"})
     => /\ Live(heap') = Live(heap)
        /\ heap' = heap
        /\ m' = m]_vars

\* C15 as stated: after any operation has returned or failed, every live
\* matrix has rows = 0 and cols = 0 exactly when it holds no row array and no
\* pool, and otherwise rows > 0 and cols > 0 with a row array of rows
\* pointers into a pool of rows x cols elements.
C15_ShapeInvariant ==
  Running =>
    \A s \in Slots :
      m[s] # None =>
        /\ (m[s].nrows = 0 /\ m[s].ncols = 0) <=> (m[s].ptr = Null)
        /\ m[s].ptr # Null =>
             /\ m[s].nrows > 0 /\ m[s].ncols > 0
             /\ heap[m[s].ptr].kind = "rows"
             /\ Len(heap[m[s].ptr].data) = m[s].nrows
             /\ LET pool == RowPtr(heap, m[s].ptr, 0)[1]
                IN /\ pool \in Addr /\ heap[pool].kind = "pool"
                   /\ Len(heap[pool].data) = m[s].nrows * m[s].ncols

\* C16 as stated: Matrix2D(rows, cols, val) and Matrix2D(listlist) with
\* rows = 0 or cols = 0 end with InvalidDimension, with no allocation
\* attempted, no object built and the heap untouched.
C16_ZeroDimensionRejected ==
  [][(last'.op \in {"fill", "list"} /\ (last'.arg[1] = 0 \/ last'.arg[2] = 0))
     => /\ last'.out = "invalid_argument"
        /\ last'.allocs = 0
        /\ heap' = heap
        /\ m' = m]_vars

\* C17: A * B with A.cols # B.rows ends with DimensionMismatch (range_error):
\* no allocation is attempted, no result is built, and A, B and every block
\* of the heap are as before.
C17_MulDimensionMismatch ==
  [][\A a \in Slots, b \in Slots :
       (last'.op = "mul" /\ last'.a = a /\ last'.b = b /\ m[a].ncols # m[b].nrows)
       => /\ last'.out = "range_error"
          /\ last'.allocs = 0
          /\ m' = m
          /\ heap' = heap]_vars

\* {{11,12,13},{21,22,23}} * {{11,12,13},{21,22,23}} was refused
C17_Witness ==
  /\ last.op = "mul" /\ last.out = "range_error"
  /\ NonEmpty(m[last.a]) /\ NonEmpty(m[last.b])
  /\ m[last.a].ncols = 3 /\ m[last.b].nrows = 2
  /\ m["mC"] = None
  /\ Values(heap, m[last.a]) = <<11, 12, 13, 21, 22, 23>>
  /\ Values(heap, m[last.b]) = <<11, 12, 13, 21, 22, 23>>

\* how many times x occurs in the sequence q
Count(q, x) == Cardinality({k \in DOMAIN q : q[k] = x})

\* C18: in one transpose() of a matrix with rows # cols and N = rows * cols
\* elements, the loop follows each cycle of a -> (rows * a) mod (N - 1) once:
\* every flat index in 1..N-2 is the destination of exactly one swap and is
\* marked in the bitmap, 0 and N-1 are neither a destination nor the other
\* position of a swap (the bit of 0 stays clear), and the pool the call leaves
\* is the pool this loop produced.
C18_CycleFollowing ==
  [][\A s \in Slots :
       (last'.op = "transpose" /\ last'.a = s /\ last'.out = "ok"
          /\ NonEmpty(m[s]) /\ m[s].nrows # m[s].ncols)
       => LET N    == m[s].nrows * m[s].ncols
              pool == RowPtr(heap, m[s].ptr, 0)[1]
              st   == permute(heap[pool].data, m[s].nrows, m[s].ncols)
          IN /\ \A x \in 1..(N - 2) : Count(st.log, x) = 1 /\ st.visited[x + 1]
             /\ Count(st.log, 0) = 0 /\ Count(st.log, N - 1) = 0
             /\ Len(st.log) = N - 2
             /\ ~st.visited[1]
             /\ st.buf[1] = heap[pool].data[1] /\ st.buf[N] = heap[pool].data[N]
             /\ heap'[pool].data = st.buf]_vars

\* {{11,12,13},{21,22,23},{31,32,33},{41,42,43}} after one transpose()
C18_Witness ==
  /\ last.op = "transpose" /\ last.out = "ok"
  /\ m["mA"].nrows = 3 /\ m["mA"].ncols = 4
  /\ Values(heap, m["mA"]) = <<11, 21, 31, 41, 12, 22, 32, 42, 13, 23, 33, 43>>

====
